---- MODULE Spec2Model ----
(***************************************************************************)
(* Licensing SaaS API (src/main.py, src/schemas.py).                       *)
(*                                                                         *)
(* The model covers the "productsaas" and "license" collections, the      *)
(* create_product / create_license handlers and the activate_license      *)
(* handler.  activate_license talks to the store twice (find_one, then    *)
(* update_one); each store call is atomic, the handler as a whole is not, *)
(* so a request that reaches the write is modelled as two steps with the  *)
(* handler's local variables kept in between.                             *)
(***************************************************************************)
EXTENDS Integers, Sequences, FiniteSets, Bags, TLC

\* ---------------------------------------------------------------- bounds
MaxCalls == 5   \* API calls and outside status changes in one run

\* ------------------------------------------------------ program constants
MinActivations == 1      \* Field(1, ge=1, ...)
MaxActivations == 100    \* Field(1, ..., le=100)

TokenChars == 22         \* secrets.token_urlsafe(16): 16 bytes in base64url
KeyChars   == 16         \* range(0, 16, 4)
GroupLen   == 4          \* token[i:i+4]

\* ---------------------------------------------------------- sample inputs
Machines == {"m1", "m2", "m3"}
Keys     == {"AAAA-AAAA-AAAA-AAAA", "BBBB-BBBB-BBBB-BBBB"}
\* product_id strings of a request: 0 is a string that is not a well-formed
\* ObjectId, n > 0 is the well-formed id of the n-th product ever inserted.
ProductIdInputs == {0, 1, 2}
\* max_activations of a request: zero, in range, and above the ceiling.
MaxActInputs   == {0, 1, 2, MaxActivations + 1}
AssignedInputs == {"null", "a@x"}
ExpiresInputs  == {"null", "2030-01-01"}
BlockedStatus  == {"suspended", "expired"}

VARIABLES
    products,   \* number of documents in db["productsaas"]; their _ids are 1..products
    license,    \* db["license"]: sequence of documents, _id = position
    req,        \* bag of activation requests between their find_one and update_one
    resp,       \* the HTTP response sent by the latest step (NoResp: none sent)
    admitted,   \* <<_id, machine_id>> of every "Activated" response sent so far
    calls,      \* API calls and outside status changes so far
    gen_token,  \* key generation on its own: the token drawn, as characters
    gen_key     \* key generation on its own: the key made of it (<<>>: not yet)

keygen == <<gen_token, gen_key>>

vars == <<products, license, req, resp, admitted, calls, gen_token, gen_key>>

\* ------------------------------------------------------------- helpers
InSeq(x, s) == \E i \in 1..Len(s) : s[i] = x

Min(S) == CHOOSE x \in S : \A y \in S : x <= y

Response(op, code, detail, key, machine_id, activations) ==
    [op |-> op, code |-> code, detail |-> detail, key |-> key,
     machine_id |-> machine_id, activations |-> activations]

NoResp == Response("none", 0, "none", "", "", <<>>)

\* locals of activate_license that are live across the two store calls
Locals(key, machine_id, id, activations) ==
    [key |-> key, machine_id |-> machine_id, id |-> id,
     activations |-> activations]

\* variant: the lower bound ge=1 is missing
LicenseValid_nolower(max_activations) == max_activations <= MaxActivations

\* License(**kwargs): pydantic validation of the model fields
LicenseValid(max_activations) ==
    /\ max_activations >= MinActivations
    /\ max_activations <= MaxActivations

\* variant: max_activations is left at the schema default
License_defaultmax(product_id, key, assigned_to, max_activations) ==
    [product_id      |-> product_id,
     key             |-> key,
     assigned_to     |-> assigned_to,
     max_activations |-> 1,
     activations     |-> <<>>,
     status          |-> "unused",
     expires_at      |-> "null"]

\* variant: the record is created in status active
License_active(product_id, key, assigned_to, max_activations) ==
    [product_id      |-> product_id,
     key             |-> key,
     assigned_to     |-> assigned_to,
     max_activations |-> max_activations,
     activations     |-> <<>>,
     status          |-> "active",
     expires_at      |-> "null"]

\* License(...) payload built by create_license
License(product_id, key, assigned_to, max_activations) ==
    [product_id      |-> product_id,
     key             |-> key,
     assigned_to     |-> assigned_to,
     max_activations |-> max_activations,
     activations     |-> <<>>,
     status          |-> "unused",
     expires_at      |-> "null"]

\* create_document("license", payload): insert_one, the new _id is the position
create_document(payload) == Append(license, payload)

\* variant: the filter is dropped, any first document is returned
find_one_nofilter(key) == IF license = <<>> THEN 0 ELSE 1

\* db["license"].find_one({"key": key}): first matching document, 0 for None
find_one(key) ==
    LET hits == {i \in 1..Len(license) : license[i].key = key}
    IN  IF hits = {} THEN 0 ELSE Min(hits)

\* variant: any well-formed id passes the product check
product_exists_any(product_id) == product_id >= 1

\* db["productsaas"].find_one({"_id": ObjectId(product_id)}) is not None
product_exists(product_id) == product_id \in 1..products

\* variant: capacity compared with > instead of >=
activate_checks_gt(id, machine_id) ==
    IF id = 0 THEN "License not found"
    ELSE IF license[id].status \in BlockedStatus THEN "License not active"
    ELSE IF InSeq(machine_id, license[id].activations)
         THEN "Already activated on this machine"
    ELSE IF Len(license[id].activations) > license[id].max_activations
         THEN "Activation limit reached"
    ELSE "proceed"

\* variant: the already-activated check is missing
activate_checks_nodedup(id, machine_id) ==
    IF id = 0 THEN "License not found"
    ELSE IF license[id].status \in BlockedStatus THEN "License not active"
    ELSE IF Len(license[id].activations) >= license[id].max_activations
         THEN "Activation limit reached"
    ELSE "proceed"

\* variant: the capacity check comes before the already-activated check
activate_checks_capfirst(id, machine_id) ==
    IF id = 0 THEN "License not found"
    ELSE IF license[id].status \in BlockedStatus THEN "License not active"
    ELSE IF Len(license[id].activations) >= license[id].max_activations
         THEN "Activation limit reached"
    ELSE IF InSeq(machine_id, license[id].activations)
         THEN "Already activated on this machine"
    ELSE "proceed"

\* variant: the capacity check is missing
activate_checks_nolimit(id, machine_id) ==
    IF id = 0 THEN "License not found"
    ELSE IF license[id].status \in BlockedStatus THEN "License not active"
    ELSE IF InSeq(machine_id, license[id].activations)
         THEN "Already activated on this machine"
    ELSE "proceed"

\* variant: the already-activated check comes before the status check
activate_checks_dedupfirst(id, machine_id) ==
    IF id = 0 THEN "License not found"
    ELSE IF InSeq(machine_id, license[id].activations)
         THEN "Already activated on this machine"
    ELSE IF license[id].status \in BlockedStatus THEN "License not active"
    ELSE IF Len(license[id].activations) >= license[id].max_activations
         THEN "Activation limit reached"
    ELSE "proceed"

\* checks of activate_license between the read and the write
activate_checks(id, machine_id) ==
    IF id = 0 THEN "License not found"
    ELSE IF license[id].status \in BlockedStatus THEN "License not active"
    ELSE IF InSeq(machine_id, license[id].activations)
         THEN "Already activated on this machine"
    ELSE IF Len(license[id].activations) >= license[id].max_activations
         THEN "Activation limit reached"
    ELSE "proceed"

\* HTTP status of each outcome of activate_license
StatusCode(detail) ==
    CASE detail = "License not found"                 -> 404
      [] detail = "License not active"                -> 403
      [] detail = "Activation limit reached"          -> 403
      [] detail = "Already activated on this machine" -> 200
      [] detail = "Activated"                         -> 200
      [] OTHER                                        -> 400

\* activations.append(machine_id) on the handler's copy of the list
appended(activations, machine_id) == Append(activations, machine_id)

\* variant: $push of the new machine id instead of $set of the whole list
update_one_push(id, activations, status) ==
    [license EXCEPT ![id].activations = Append(@, activations[Len(activations)]),
                    ![id].status = status]

\* variant: only the activations field is written
update_one_nostatus(id, activations, status) ==
    [license EXCEPT ![id].activations = activations]

\* variant: the filter is dropped, the first document is updated
update_one_first(id, activations, status) ==
    [license EXCEPT ![1].activations = activations, ![1].status = status]

\* db["license"].update_one({"_id": id}, {"$set": {"activations": .., "status": ..}})
update_one(id, activations, status) ==
    [license EXCEPT ![id].activations = activations, ![id].status = status]

\* ------------------------------------------------------- key generation
\* strings are sequences of one-character strings
UpperLetters == {"A", "B", "C", "D", "E", "F", "G", "H", "I", "J", "K", "L", "M",
                 "N", "O", "P", "Q", "R", "S", "T", "U", "V", "W", "X", "Y", "Z"}
Digits       == {"0", "1", "2", "3", "4", "5", "6", "7", "8", "9"}

\* the tokens followed here: 16 bytes in base64url are 22 characters of
\* A-Z a-z 0-9 - _ of which the last one carries two bits (A, Q, g or w);
\* n separators in front of or behind a run of one alphanumeric character
Token(n, c, sep, last, front) ==
    [i \in 1..TokenChars |->
        IF i = TokenChars THEN last
        ELSE IF front THEN (IF i <= n THEN sep ELSE c)
        ELSE (IF i > TokenChars - 1 - n THEN sep ELSE c)]

TokenSamples ==
    {Token(n, c, sep, last, front) :
        n \in 0..(TokenChars - 1), c \in {"a", "Q", "7"}, sep \in {"-", "_"},
        last \in {"Q", "w"}, front \in BOOLEAN}

\* str.upper() on one character
upper_char(c) ==
    CASE c = "a" -> "A" [] c = "b" -> "B" [] c = "c" -> "C" [] c = "d" -> "D"
      [] c = "e" -> "E" [] c = "f" -> "F" [] c = "g" -> "G" [] c = "h" -> "H"
      [] c = "i" -> "I" [] c = "j" -> "J" [] c = "k" -> "K" [] c = "l" -> "L"
      [] c = "m" -> "M" [] c = "n" -> "N" [] c = "o" -> "O" [] c = "p" -> "P"
      [] c = "q" -> "Q" [] c = "r" -> "R" [] c = "s" -> "S" [] c = "t" -> "T"
      [] c = "u" -> "U" [] c = "v" -> "V" [] c = "w" -> "W" [] c = "x" -> "X"
      [] c = "y" -> "Y" [] c = "z" -> "Z" [] OTHER -> c

\* str.upper()
upper(str) == [i \in 1..Len(str) |-> upper_char(str[i])]

\* str.replace(ch, "")
remove(str, ch) == SelectSeq(str, LAMBDA x : x # ch)

\* str[a:b], clipped to the string as Python slices are
slice(str, a, b) ==
    SubSeq(str, a + 1, IF b <= Len(str) THEN b ELSE Len(str))

\* "-".join(parts)
RECURSIVE join(_, _)
join(sep, parts) ==
    IF parts = <<>> THEN <<>>
    ELSE IF Len(parts) = 1 THEN parts[1]
    ELSE parts[1] \o <<sep>> \o join(sep, Tail(parts))

\* lines 107-109: the key made of a token
make_key(tok) ==
    LET token == remove(remove(upper(tok), "-"), "_")
    IN  join("-", [g \in 1..(KeyChars \div GroupLen) |->
                      slice(token, GroupLen * (g - 1), GroupLen * g)])

\* ---------------------------------------------------------------- init
Init ==
    /\ products = 0
    /\ license = <<>>
    /\ req = EmptyBag
    /\ resp = NoResp
    /\ admitted = {}
    /\ calls = 0
    /\ gen_token = <<>>
    /\ gen_key = <<>>

\* ------------------------------------------------------------- actions
\* POST /api/products
create_product ==
    /\ calls < MaxCalls
    /\ calls' = calls + 1
    /\ \E price \in {-1, 0} :
          IF price >= 0
          THEN /\ products' = products + 1
               /\ resp' = Response("create_product", 200, "ok", "", "", <<>>)
          ELSE /\ products' = products
               /\ resp' = Response("create_product", 400, "error", "", "", <<>>)
    /\ UNCHANGED <<license, req, admitted, keygen>>

\* POST /api/licenses with one request body and one token drawn by secrets
issue(product_id, assigned_to, max_activations, expires_at, key) ==
    /\ calls < MaxCalls
    /\ calls' = calls + 1
    /\ IF product_id = 0
       THEN \* ObjectId(...) raises InvalidId: except Exception -> 400
            /\ resp' = Response("create_license", 400, "InvalidId", "", "", <<>>)
            /\ UNCHANGED license
       ELSE IF ~product_exists(product_id)
       THEN /\ resp' = Response("create_license", 404, "Product not found",
                                "", "", <<>>)
            /\ UNCHANGED license
       ELSE IF ~LicenseValid(max_activations)
       THEN \* ValidationError: except Exception -> 400
            /\ resp' = Response("create_license", 400, "ValidationError",
                                "", "", <<>>)
            /\ UNCHANGED license
       ELSE /\ license' = create_document(
                   License(product_id, key, assigned_to, max_activations))
            /\ resp' = Response("create_license", 200, "ok", key, "", <<>>)
    /\ UNCHANGED <<products, req, admitted, keygen>>

\* POST /api/licenses
create_license ==
    \E product_id \in ProductIdInputs, assigned_to \in AssignedInputs,
       max_activations \in MaxActInputs, expires_at \in ExpiresInputs,
       key \in Keys :
       issue(product_id, assigned_to, max_activations, expires_at, key)

\* POST /api/licenses/activate {key, machine_id}: from the find_one up to
\* the first return, raise or store write
activate_license_read(key, machine_id) ==
    /\ calls < MaxCalls
    /\ calls' = calls + 1
    /\ LET id  == find_one(key)
           out == activate_checks(id, machine_id)
       IN  IF out = "proceed"
           THEN /\ req' = req (+) SetToBag({Locals(key, machine_id, id,
                              appended(license[id].activations, machine_id))})
                /\ resp' = NoResp
           ELSE /\ req' = req
                /\ resp' = Response("activate", StatusCode(out), out, key,
                                    machine_id, <<>>)
    /\ UNCHANGED <<products, license, admitted, keygen>>

\* POST /api/licenses/activate: the update_one and the response
activate_license_write(q) ==
    /\ BagIn(q, req)
    /\ license' = update_one(q.id, q.activations, "active")
    /\ resp' = Response("activate", StatusCode("Activated"), "Activated",
                        q.key, q.machine_id, q.activations)
    /\ admitted' = admitted \cup {<<q.id, q.machine_id>>}
    /\ req' = req (-) SetToBag({q})
    /\ UNCHANGED <<products, calls, keygen>>

\* POST /api/licenses/activate: the update_one raises (store unreachable)
activate_license_fail(q) ==
    /\ BagIn(q, req)
    /\ resp' = Response("activate", StatusCode("error"), "error",
                        q.key, q.machine_id, <<>>)
    /\ req' = req (-) SetToBag({q})
    /\ UNCHANGED <<products, license, admitted, calls, keygen>>

\* status set from outside the API (operator console on the collection)
set_status_externally ==
    /\ calls < MaxCalls
    /\ calls' = calls + 1
    /\ \E id \in 1..Len(license), status \in BlockedStatus :
          /\ license[id].status \notin BlockedStatus
          /\ license' = [license EXCEPT ![id].status = status]
    /\ resp' = NoResp
    /\ UNCHANGED <<products, req, admitted, keygen>>

Next ==
    \/ create_product
    \/ create_license
    \/ \E key \in Keys, machine_id \in Machines :
          activate_license_read(key, machine_id)
    \/ \E q \in BagToSet(req) : activate_license_write(q)
    \/ \E q \in BagToSet(req) : activate_license_fail(q)
    \/ set_status_externally

Spec == Init /\ [][Next]_vars

\* the two creating handlers on their own
NextIssue ==
    \/ create_product
    \/ create_license

SpecIssue == Init /\ [][NextIssue]_vars

\* key generation on its own: one token drawn, one key made of it
InitKey ==
    /\ products = 0
    /\ license = <<>>
    /\ req = EmptyBag
    /\ resp = NoResp
    /\ admitted = {}
    /\ calls = 0
    /\ gen_token \in TokenSamples
    /\ gen_key = <<>>

generate_key ==
    /\ gen_key = <<>>
    /\ gen_key' = make_key(gen_token)
    /\ UNCHANGED <<products, license, req, resp, admitted, calls, gen_token>>

NextKey == generate_key

SpecKey == InitKey /\ [][NextKey]_vars


\* ------------------------------------------------------------ properties
\* vocabulary of the properties, stated on the collection itself
KeyKnown(key) == \E i \in 1..Len(license) : license[i].key = key

\* the document a request for `key` is about: the first one carrying the key
Target(key) ==
    CHOOSE i \in 1..Len(license) :
        /\ license[i].key = key
        /\ \A j \in 1..(i - 1) : license[j].key # key

Usable(key) == KeyKnown(key) /\ license[Target(key)].status \notin BlockedStatus

Holds(key, machine_id) ==
    KeyKnown(key) /\ InSeq(machine_id, license[Target(key)].activations)

Full(key) ==
    /\ KeyKnown(key)
    /\ Len(license[Target(key)].activations)
           >= license[Target(key)].max_activations

AdmittedOn(id) == {m \in Machines : <<id, m>> \in admitted}

\* C1: concurrent activations of distinct machines on one license never get
\* more "Activated" responses than the license has seats (max_activations).
C1_AtMostKAdmitted ==
    \A id \in 1..Len(license) :
        Cardinality(AdmittedOn(id)) <= license[id].max_activations

\* C2: every stored license has at most max_activations activations.
C2_WithinCapacity ==
    \A id \in 1..Len(license) :
        Len(license[id].activations) <= license[id].max_activations

\* C2 witness: a full license on which racing requests were all answered
\* "Activated" (more responses than seats), the list still within capacity.
C2_Witness ==
    \E id \in 1..Len(license) :
        /\ Len(license[id].activations) = license[id].max_activations
        /\ Cardinality(AdmittedOn(id)) > license[id].max_activations

\* C3: a machine that was answered "Activated" stays in the stored
\* activations, and a later activation of it on a license that is not
\* suspended/expired is answered "Already activated on this machine".
C3_AdmittedStays ==
    /\ \A id \in 1..Len(license) : \A m \in AdmittedOn(id) :
           InSeq(m, license[id].activations)
    /\ (/\ resp.op = "activate"
        /\ resp.detail # "error"
        /\ Usable(resp.key)
        /\ resp.machine_id \in AdmittedOn(Target(resp.key)))
       => resp.detail \in {"Activated", "Already activated on this machine"}

\* C4 as stated: two successive activate(key, m) calls with nothing in
\* between, on a license that is not suspended/expired, are answered
\* "Activated" or "Already activated" and then "Already activated"; the
\* second call writes nothing.
C4_TwiceAlwaysAdmitted ==
    [][\A key \in Keys, m \in Machines :
          (/\ resp.op = "activate" /\ resp.key = key /\ resp.machine_id = m
           /\ resp.detail # "error"
           /\ Usable(key)
           /\ activate_license_read(key, m))
          => /\ resp.detail \in {"Activated", "Already activated on this machine"}
             /\ resp'.detail = "Already activated on this machine"
             /\ license' = license /\ req' = req]_vars

\* C4 amended: as above, except that a machine that is absent from a full
\* license is answered "Activation limit reached" both times; in every case
\* the second call writes nothing and leaves the license as it was.
C4_Idempotent ==
    [][\A key \in Keys, m \in Machines :
          (/\ resp.op = "activate" /\ resp.key = key /\ resp.machine_id = m
           /\ resp.detail # "error"
           /\ Usable(key)
           /\ activate_license_read(key, m))
          => /\ \/ /\ resp.detail \in {"Activated",
                                       "Already activated on this machine"}
                   /\ resp'.detail = "Already activated on this machine"
                   /\ resp'.code = 200
                \/ /\ resp.detail = "Activation limit reached"
                   /\ resp'.detail = "Activation limit reached"
                   /\ resp'.code = 403
             /\ license' = license /\ req' = req]_vars

\* C4 witness: a machine that was answered "Activated" before is answered
\* "Already activated on this machine" by the call that just completed.
C4_Witness ==
    /\ resp.op = "activate"
    /\ resp.detail = "Already activated on this machine"
    /\ KeyKnown(resp.key)
    /\ resp.machine_id \in AdmittedOn(Target(resp.key))

\* C5: on a full license that is not suspended/expired, activating a machine
\* that is already in activations is answered 200 "Already activated on this
\* machine", never "Activation limit reached".
C5_DedupBeforeCapacity ==
    [][\A key \in Keys, m \in Machines :
          (/\ Usable(key) /\ Full(key) /\ Holds(key, m)
           /\ activate_license_read(key, m))
          => /\ resp'.detail = "Already activated on this machine"
             /\ resp'.code = 200]_vars

\* C5 witness: "Already activated" was just answered on a full license.
C5_Witness ==
    /\ resp.op = "activate"
    /\ resp.detail = "Already activated on this machine"
    /\ Full(resp.key)
    /\ Holds(resp.key, resp.machine_id)

\* C6: on a full license that is not suspended/expired, activating a machine
\* that is not in activations is answered 403 "Activation limit reached" and
\* the collection is left as it was.
C6_CapacityEnforced ==
    [][\A key \in Keys, m \in Machines :
          (/\ Usable(key) /\ Full(key) /\ ~Holds(key, m)
           /\ activate_license_read(key, m))
          => /\ resp'.detail = "Activation limit reached"
             /\ resp'.code = 403
             /\ license' = license /\ req' = req]_vars

\* C6 witness: "Activation limit reached" was just answered for a machine
\* that is not among the activations of the full license.
C6_Witness ==
    /\ resp.op = "activate"
    /\ resp.detail = "Activation limit reached"
    /\ Full(resp.key)
    /\ ~Holds(resp.key, resp.machine_id)

\* C7: on a license whose stored status is suspended or expired, every
\* activation is answered 403 "License not active", whatever the capacity
\* and whether or not the machine is in activations; nothing is written.
C7_BlockedStatusRejects ==
    [][\A key \in Keys, m \in Machines :
          (/\ KeyKnown(key) /\ ~Usable(key)
           /\ activate_license_read(key, m))
          => /\ resp'.detail = "License not active"
             /\ resp'.code = 403
             /\ license' = license /\ req' = req]_vars

\* C7 witness: "License not active" was just answered for a machine that is
\* in the activations of a suspended/expired license.
C7_Witness ==
    /\ resp.op = "activate"
    /\ resp.detail = "License not active"
    /\ Holds(resp.key, resp.machine_id)

\* C8: activating a key that no stored license carries is answered 404
\* "License not found" and the collection is left as it was.
C8_UnknownKeyNotFound ==
    [][\A key \in Keys, m \in Machines :
          (~KeyKnown(key) /\ activate_license_read(key, m))
          => /\ resp'.detail = "License not found"
             /\ resp'.code = 404
             /\ license' = license /\ req' = req]_vars

\* C8 witness: "License not found" was just answered while the collection
\* holds a license under another key.
C8_Witness ==
    /\ resp.op = "activate"
    /\ resp.detail = "License not found"
    /\ license # <<>>
    /\ ~KeyKnown(resp.key)

\* C9 as stated: every stored license has status active exactly when its
\* activations list is not empty.
C9_ActiveIffActivated ==
    \A id \in 1..Len(license) :
        (license[id].status = "active") <=> (Len(license[id].activations) >= 1)

\* C9 amended: every stored license whose status is not suspended/expired
\* has status active exactly when its activations list is not empty (so
\* none is unused with a non-empty list).
C9_ActiveIffActivatedUnlessBlocked ==
    \A id \in 1..Len(license) :
        license[id].status \notin BlockedStatus
        => ((license[id].status = "active")
               <=> (Len(license[id].activations) >= 1))

\* C9 witness: an activation was just written: list and status changed
\* together.
C9_Witness ==
    /\ resp.op = "activate" /\ resp.detail = "Activated"
    /\ license[Target(resp.key)].status = "active"
    /\ Len(license[Target(resp.key)].activations) >= 1

\* C10: no stored activations list holds a machine id twice.
C10_NoDuplicates ==
    \A id \in 1..Len(license) :
        \A i, j \in 1..Len(license[id].activations) :
            i # j => license[id].activations[i] # license[id].activations[j]

\* C10 witness: a request between its read and its write carries a machine
\* id that another request has stored in the meantime.
C10_Witness ==
    \E q \in BagToSet(req) :
        InSeq(q.machine_id, license[q.id].activations)

\* C11 as stated: issuing for a product_id that resolves to no product,
\* well-formed or not, is answered 404 and persists no license.
C11_MissingProductNotFound ==
    [][(resp'.op = "create_license") =>
          \A product_id \in ProductIdInputs :
             (/\ ~(product_id >= 1 /\ product_id <= products)
              /\ \E assigned_to \in AssignedInputs,
                    max_activations \in MaxActInputs,
                    expires_at \in ExpiresInputs, key \in Keys :
                    issue(product_id, assigned_to, max_activations,
                          expires_at, key))
             => /\ resp'.code = 404
                /\ license' = license]_vars

\* C11 amended: issuing for a well-formed product_id that resolves to no
\* product is answered 404, issuing for a product_id that is not a
\* well-formed identifier is answered 400; neither persists a license.
C11_MissingProduct404Malformed400 ==
    [][(resp'.op = "create_license") =>
          \A product_id \in ProductIdInputs :
             (/\ ~(product_id >= 1 /\ product_id <= products)
              /\ \E assigned_to \in AssignedInputs,
                    max_activations \in MaxActInputs,
                    expires_at \in ExpiresInputs, key \in Keys :
                    issue(product_id, assigned_to, max_activations,
                          expires_at, key))
             => /\ resp'.code = (IF product_id = 0 THEN 400 ELSE 404)
                /\ license' = license]_vars

\* C11 witness: "Product not found" was just answered while a product and a
\* license exist (the id asked for is well-formed but resolves to nothing).
C11_Witness ==
    /\ resp.op = "create_license"
    /\ resp.code = 404
    /\ products >= 1
    /\ license # <<>>

\* C12: a successful issue appends exactly one record: status unused, no
\* activations, expires_at null whatever the caller sent, product_id,
\* assigned_to and max_activations as requested; the records that were
\* there are left as they were.
C12_IssuePersistsFreshRecord ==
    [][(resp'.op = "create_license" /\ resp'.code = 200) =>
          \A product_id \in ProductIdInputs, assigned_to \in AssignedInputs,
             max_activations \in MaxActInputs, expires_at \in ExpiresInputs,
             key \in Keys :
             (/\ resp'.key = key
              /\ issue(product_id, assigned_to, max_activations, expires_at, key))
             => /\ Len(license') = Len(license) + 1
                /\ \A id \in 1..Len(license) : license'[id] = license[id]
                /\ LET new == license'[Len(license')]
                   IN  /\ new.status = "unused"
                       /\ new.activations = <<>>
                       /\ new.expires_at = "null"
                       /\ new.product_id = product_id
                       /\ new.assigned_to = assigned_to
                       /\ new.max_activations = max_activations
                       /\ new.key = key]_vars

\* C12 witness: a second license was just issued with non-default values
\* while the first one keeps its activation.
C12_Witness ==
    /\ resp.op = "create_license" /\ resp.code = 200
    /\ Len(license) = 2
    /\ license[2].max_activations = 2
    /\ license[2].assigned_to = "a@x"
    /\ license[2].status = "unused"
    /\ license[1].activations # <<>>

\* C16: issuing for an existing product with max_activations outside 1..100
\* is answered 400 and persists no license; every stored license has
\* max_activations in 1..100 and no step changes it.
C16_MaxActivationsInRange ==
    [][/\ (resp'.op = "create_license") =>
             \A product_id \in ProductIdInputs,
                max_activations \in MaxActInputs :
                (/\ product_id >= 1 /\ product_id <= products
                 /\ (max_activations < 1 \/ max_activations > 100)
                 /\ \E assigned_to \in AssignedInputs,
                       expires_at \in ExpiresInputs, key \in Keys :
                       issue(product_id, assigned_to, max_activations,
                             expires_at, key))
                => /\ resp'.code = 400
                   /\ license' = license
       /\ \A id \in 1..Len(license') :
             /\ license'[id].max_activations >= 1
             /\ license'[id].max_activations <= 100
       /\ \A id \in 1..Len(license) :
             license'[id].max_activations = license[id].max_activations]_vars

\* C16 witness: a validation error was just answered for an existing
\* product, next to a license that has been activated.
C16_Witness ==
    /\ resp.op = "create_license"
    /\ resp.code = 400 /\ resp.detail = "ValidationError"
    /\ \E id \in 1..Len(license) : license[id].activations # <<>>

\* C13: the key made of any token has the shape XXXX-XXXX-XXXX-XXXX: 19
\* characters, hyphens at positions 5, 10 and 15, A-Z or 0-9 elsewhere.
C13_KeyShape ==
    gen_key # <<>> =>
        /\ Len(gen_key) = 19
        /\ \A i \in 1..Len(gen_key) :
              IF i \in {5, 10, 15}
              THEN gen_key[i] = "-"
              ELSE gen_key[i] \in UpperLetters \cup Digits

\* C14: no two stored licenses carry the same key.
C14_KeysUnique ==
    \A i, j \in 1..Len(license) :
        license[i].key = license[j].key => i = j

\* a step of some activate request: it answers one or moves one in flight
ActivateStep == resp'.op = "activate" \/ req' # req

\* C15: a license is created in status unused; the write of an admitted
\* activation leaves its license active; an activate step on an active
\* license leaves it active; no step sets a status back to unused.
C15_StatusTransition ==
    [][/\ Len(license') = Len(license) + 1
          => license'[Len(license')].status = "unused"
       /\ \A id \in 1..Len(license) :
            /\ (resp'.detail = "Activated" /\ license'[id] # license[id])
                  => license'[id].status = "active"
            /\ (resp'.detail = "Activated" /\ Usable(resp'.key)
                  /\ id = Target(resp'.key))
                  => license'[id].status = "active"
            /\ (ActivateStep /\ license[id].status = "active")
                  => license'[id].status = "active"
            /\ license[id].status # "unused"
                  => license'[id].status # "unused"]_vars

\* C15 witness: an idempotent repeat answered on a license that is active,
\* next to a license that is still unused.
C15_Witness ==
    /\ resp.op = "activate"
    /\ resp.detail = "Already activated on this machine"
    /\ license[Target(resp.key)].status = "active"
    /\ \E id \in 1..Len(license) : license[id].status = "unused"

\* C17: a license whose stored status is suspended or expired keeps its
\* status and its activations in every later step.
C17_BlockedFrozen ==
    [][\A id \in 1..Len(license) :
          license[id].status \in BlockedStatus
          => /\ license'[id].status = license[id].status
             /\ license'[id].activations = license[id].activations]_vars

IsPrefix(s, t) == Len(s) <= Len(t) /\ SubSeq(t, 1, Len(s)) = s

\* C18: the stored activations list only grows by appending: each step
\* leaves the old list a prefix of the new one, an admission puts its
\* machine id at the end, and the list returned with "Activated" is the
\* stored list.
C18_AppendOnly ==
    [][\A id \in 1..Len(license) :
          /\ IsPrefix(license[id].activations, license'[id].activations)
          /\ (resp'.detail = "Activated" /\ license'[id] # license[id])
             => /\ license'[id].activations = resp'.activations
                /\ license'[id].activations
                      = Append(license[id].activations, resp'.machine_id)]_vars

\* C19: an activate step for key K changes at most the activations and the
\* status of one license, whose key is K; every other license and every
\* other field stays as it was, and no license is added or removed.
C19_OnlyTargetChanges ==
    [][ActivateStep =>
          /\ Len(license') = Len(license)
          /\ \A id \in 1..Len(license) :
                /\ license'[id].key = license[id].key
                /\ license'[id].product_id = license[id].product_id
                /\ license'[id].assigned_to = license[id].assigned_to
                /\ license'[id].max_activations = license[id].max_activations
                /\ license'[id].expires_at = license[id].expires_at
                /\ license'[id] # license[id]
                      => /\ resp'.op = "activate"
                         /\ license[id].key = resp'.key
          /\ Cardinality({id \in 1..Len(license) :
                             license'[id] # license[id]}) <= 1]_vars

\* C19 witness: two licenses with different keys, the second one just
\* activated, the first one still as issued.
C19_Witness ==
    /\ Len(license) = 2
    /\ license[1].key # license[2].key
    /\ resp.op = "activate" /\ resp.detail = "Activated"
    /\ resp.key = license[2].key
    /\ license[2].activations # <<>>
    /\ license[1].activations = <<>> /\ license[1].status = "unused"

====
